---- MODULE Spec2Model ----
(***************************************************************************)
(* Model of the historical-data retrieval engine of the OilPriceAPI Python *)
(* SDK: oilpriceapi/resources/historical.py (HistoricalResource).          *)
(*                                                                         *)
(* One call of get, get_all or iter_pages runs against a transport that    *)
(* answers every request with an arbitrary JSON value.  A call advances    *)
(* from one transport call to the next; the log of requests, the log of    *)
(* served responses and what the call handed to its caller are the state.  *)
(***************************************************************************)
EXTENDS Integers, Sequences, FiniteSets, Bags, TLC

(***************************************************************************)
(* Bounds of the model.                                                    *)
(***************************************************************************)
\* largest day count (end - start) of an enumerated date range
MaxDays == 32
\* most negative day count of an enumerated (reversed) date range is -MaxBack
MaxBack == 2
\* pages a driver is allowed to request before the model stops following it
MaxPages == 3
\* longest enumerated list of well-formed raw records
MaxRecords == 2
MaxRetryLimit == 4
MaxCalls == 2
MaxConcPages == 2
MaxAttempt == 8
MaxTracked == 3
MaxTrackers == 2
MaxEvents == 10

(***************************************************************************)
(* Python values.                                                          *)
(***************************************************************************)
\* a key a dict does not hold
Absent == "Absent"
\* Python's None as a field value
None == "None"

\* Optional[float] timeout argument
NoTimeout == [given |-> FALSE, value |-> 0]
Timeout(v) == [given |-> TRUE, value |-> v]

(***************************************************************************)
(* Date-like inputs: None, "" , an ISO string, a string that is no ISO     *)
(* date, a date, a datetime (day plus hour of the day), an ISO string with *)
(* a time of day ("2024-01-01T10:00:00").                                  *)
(***************************************************************************)
DateInput(kind, day, hour) == [kind |-> kind, day |-> day, hour |-> hour]
NoDate == DateInput("none", 0, 0)
EmptyStr == DateInput("emptystr", 0, 0)
BadStr == DateInput("badstr", 0, 0)
IsoStr(day) == DateInput("str", day, 0)
Date(day) == DateInput("date", day, 0)
DateTime(day, hour) == DateInput("datetime", day, hour)
IsoDateTimeStr(day, hour) == DateInput("strdt", day, hour)

\* Python truthiness of a date-like input: None and "" are falsy
Truthy(d) == d.kind \notin {"none", "emptystr"}

\* _parse_date: the calendar day of the input, or ValueError
parse_date(d) ==
    CASE d.kind = "str" -> [exc |-> "none", day |-> d.day]
      [] d.kind = "strdt" -> [exc |-> "none", day |-> d.day]
      [] d.kind = "datetime" -> [exc |-> "none", day |-> d.day]
      [] d.kind = "date" -> [exc |-> "none", day |-> d.day]
      [] OTHER -> [exc |-> "ValueError", day |-> 0]

\* _format_date: a string is passed through as it is, a datetime loses its
\* time of day, a date is written as an ISO calendar date
format_date(d) ==
    CASE d.kind \in {"str", "strdt", "badstr", "emptystr"} ->
            [exc |-> "none", text |-> d]
      [] d.kind = "datetime" -> [exc |-> "none", text |-> IsoStr(d.day)]
      [] d.kind = "date" -> [exc |-> "none", text |-> IsoStr(d.day)]
      [] OTHER -> [exc |-> "ValueError", text |-> NoDate]

(***************************************************************************)
(* Endpoint Selector and Timeout Policy.                                   *)
(***************************************************************************)
EndpointOffByOne(start_date, end_date) ==
    IF ~Truthy(start_date) \/ ~Truthy(end_date)
    THEN [exc |-> "none", path |-> "/v1/prices/past_year"]
    ELSE LET start == parse_date(start_date)
             end == parse_date(end_date)
             days == end.day - start.day
         IN  IF start.exc # "none" \/ end.exc # "none"
             THEN [exc |-> "ValueError", path |-> ""]
             ELSE [exc |-> "none",
                   path |-> IF days < 1 THEN "/v1/prices/past_day"
                            ELSE IF days < 7 THEN "/v1/prices/past_week"
                            ELSE IF days < 30 THEN "/v1/prices/past_month"
                            ELSE "/v1/prices/past_year"]

EndpointRejectsReversed(start_date, end_date) ==
    IF ~Truthy(start_date) \/ ~Truthy(end_date)
    THEN [exc |-> "none", path |-> "/v1/prices/past_year"]
    ELSE LET start == parse_date(start_date)
             end == parse_date(end_date)
             days == end.day - start.day
         IN  IF start.exc # "none" \/ end.exc # "none" \/ days < 0
             THEN [exc |-> "ValueError", path |-> ""]
             ELSE [exc |-> "none",
                   path |-> IF days <= 1 THEN "/v1/prices/past_day"
                            ELSE IF days <= 7 THEN "/v1/prices/past_week"
                            ELSE IF days <= 30 THEN "/v1/prices/past_month"
                            ELSE "/v1/prices/past_year"]

get_optimal_endpoint(start_date, end_date) ==
    IF ~Truthy(start_date) \/ ~Truthy(end_date)
    THEN [exc |-> "none", path |-> "/v1/prices/past_year"]
    ELSE LET start == parse_date(start_date)
             end == parse_date(end_date)
             days == end.day - start.day
         IN  IF start.exc # "none" \/ end.exc # "none"
             THEN [exc |-> "ValueError", path |-> ""]
             ELSE [exc |-> "none",
                   path |-> IF days <= 1 THEN "/v1/prices/past_day"
                            ELSE IF days <= 7 THEN "/v1/prices/past_week"
                            ELSE IF days <= 30 THEN "/v1/prices/past_month"
                            ELSE "/v1/prices/past_year"]

TimeoutOffByOne(start_date, end_date, custom_timeout) ==
    IF custom_timeout.given
    THEN [exc |-> "none", timeout |-> custom_timeout.value]
    ELSE IF ~Truthy(start_date) \/ ~Truthy(end_date)
    THEN [exc |-> "none", timeout |-> 120]
    ELSE LET start == parse_date(start_date)
             end == parse_date(end_date)
             days == end.day - start.day
         IN  IF start.exc # "none" \/ end.exc # "none"
             THEN [exc |-> "ValueError", timeout |-> 0]
             ELSE [exc |-> "none",
                   timeout |-> IF days < 7 THEN 30
                               ELSE IF days < 30 THEN 60
                               ELSE 120]

TimeoutClampsOverride(start_date, end_date, custom_timeout) ==
    IF ~Truthy(start_date) \/ ~Truthy(end_date)
    THEN [exc |-> "none",
          timeout |-> IF custom_timeout.given THEN custom_timeout.value ELSE 120]
    ELSE LET start == parse_date(start_date)
             end == parse_date(end_date)
             days == end.day - start.day
             tier == IF days <= 7 THEN 30 ELSE IF days <= 30 THEN 60 ELSE 120
         IN  IF start.exc # "none" \/ end.exc # "none"
             THEN [exc |-> "ValueError", timeout |-> 0]
             ELSE [exc |-> "none",
                   timeout |-> IF custom_timeout.given /\ custom_timeout.value > tier
                               THEN custom_timeout.value
                               ELSE tier]

TimeoutShortAboveMonth(start_date, end_date, custom_timeout) ==
    IF custom_timeout.given
    THEN [exc |-> "none", timeout |-> custom_timeout.value]
    ELSE IF ~Truthy(start_date) \/ ~Truthy(end_date)
    THEN [exc |-> "none", timeout |-> 120]
    ELSE LET start == parse_date(start_date)
             end == parse_date(end_date)
             days == end.day - start.day
         IN  IF start.exc # "none" \/ end.exc # "none"
             THEN [exc |-> "ValueError", timeout |-> 0]
             ELSE [exc |-> "none",
                   timeout |-> IF days <= 7 THEN 30
                               ELSE IF days <= 30 THEN 60
                               ELSE 30]

calculate_timeout(start_date, end_date, custom_timeout) ==
    IF custom_timeout.given
    THEN [exc |-> "none", timeout |-> custom_timeout.value]
    ELSE IF ~Truthy(start_date) \/ ~Truthy(end_date)
    THEN [exc |-> "none", timeout |-> 120]
    ELSE LET start == parse_date(start_date)
             end == parse_date(end_date)
             days == end.day - start.day
         IN  IF start.exc # "none" \/ end.exc # "none"
             THEN [exc |-> "ValueError", timeout |-> 0]
             ELSE [exc |-> "none",
                   timeout |-> IF days <= 7 THEN 30
                               ELSE IF days <= 30 THEN 60
                               ELSE 120]

Min(a, b) == IF a <= b THEN a ELSE b

\* client.request(method="GET", path, params, timeout): a date parameter that
\* is not sent is NoDate
Request(path, timeout, by_code, interval, page, per_page, by_type, start_date, end_date) ==
    [path |-> path, timeout |-> timeout, by_code |-> by_code,
     interval |-> interval, page |-> page, per_page |-> per_page,
     by_type |-> by_type, start_date |-> start_date, end_date |-> end_date]
NoRequest == Request("", 0, "", "", 0, 0, "", NoDate, NoDate)

GetRequestUncapped(a, page, per_page, timeout) ==
    LET fs == IF Truthy(a.start_date) THEN format_date(a.start_date)
              ELSE [exc |-> "none", text |-> NoDate]
        fe == IF Truthy(a.end_date) THEN format_date(a.end_date)
              ELSE [exc |-> "none", text |-> NoDate]
        endpoint == get_optimal_endpoint(a.start_date, a.end_date)
        request_timeout == calculate_timeout(a.start_date, a.end_date, timeout)
    IN  IF fs.exc # "none" \/ fe.exc # "none" \/ endpoint.exc # "none"
           \/ request_timeout.exc # "none"
        THEN [exc |-> "ValueError", request |-> NoRequest]
        ELSE [exc |-> "none",
              request |-> Request(endpoint.path, request_timeout.timeout,
                                  a.commodity, a.interval, page,
                                  per_page, a.type_name, fs.text, fe.text)]

\* get, lines 148-176: the request handed to the transport, or the error
\* raised before any request is made
get_request(a, page, per_page, timeout) ==
    LET fs == IF Truthy(a.start_date) THEN format_date(a.start_date)
              ELSE [exc |-> "none", text |-> NoDate]
        fe == IF Truthy(a.end_date) THEN format_date(a.end_date)
              ELSE [exc |-> "none", text |-> NoDate]
        endpoint == get_optimal_endpoint(a.start_date, a.end_date)
        request_timeout == calculate_timeout(a.start_date, a.end_date, timeout)
    IN  IF fs.exc # "none" \/ fe.exc # "none" \/ endpoint.exc # "none"
           \/ request_timeout.exc # "none"
        THEN [exc |-> "ValueError", request |-> NoRequest]
        ELSE [exc |-> "none",
              request |-> Request(endpoint.path, request_timeout.timeout,
                                  a.commodity, a.interval, page,
                                  Min(per_page, 1000), a.type_name,
                                  fs.text, fe.text)]

(***************************************************************************)
(* JSON values the transport can return.                                   *)
(*                                                                         *)
(* An item of an array is a dict (a raw record: every key holds a string   *)
(* or is Absent), a string or a number.  Text is a sequence of characters, *)
(* so that Python's substring test on strings is computed.                 *)
(***************************************************************************)
Item(kind, text, created_at, code, commodity_name, price, unit, type) ==
    [kind |-> kind, text |-> text, created_at |-> created_at, code |-> code,
     commodity_name |-> commodity_name, price |-> price, unit |-> unit,
     type |-> type]
RawRecord(created_at, code, commodity_name, price, unit, type) ==
    Item("dict", <<>>, created_at, code, commodity_name, price, unit, type)
StrItem(text) == Item("str", text, Absent, Absent, Absent, Absent, Absent, Absent)
NumItem == Item("num", <<>>, Absent, Absent, Absent, Absent, Absent, Absent)

TextData == <<"d", "a", "t", "a">>
TextMeta == <<"m", "e", "t", "a">>
TextNoData == <<"n", "o", " ", "d", "a", "t", "a">>
TextOops == <<"o", "o", "p", "s">>

\* Python: needle in hay, for two strings
Contains(hay, needle) ==
    \E i \in 0..(Len(hay) - Len(needle)) :
        \A j \in 1..Len(needle) : hay[i + j] = needle[j]

\* the value under "data": absent, a dict (with or without "prices"), a list,
\* or anything else (string, number, null)
DataVal(kind, has_prices, items) ==
    [kind |-> kind, has_prices |-> has_prices, items |-> items]
NoData == DataVal("absent", FALSE, <<>>)

\* the value under "meta": absent, a dict holding the keys in keys, or
\* anything else
MetaKeys == {"page", "per_page", "total", "total_pages", "has_next", "has_prev"}
MetaVal(kind, keys, page, per_page, total, total_pages, has_next, has_prev) ==
    [kind |-> kind, keys |-> keys, page |-> page, per_page |-> per_page,
     total |-> total, total_pages |-> total_pages, has_next |-> has_next,
     has_prev |-> has_prev]
NoMeta == MetaVal("absent", {}, 0, 0, 0, 0, FALSE, FALSE)

\* a JSON value: object, array, string, number or null
Json(kind, data, meta, items, text) ==
    [kind |-> kind, data |-> data, meta |-> meta, items |-> items, text |-> text]
Nested(R, meta) == Json("object", DataVal("dict", TRUE, R), meta, <<>>, <<>>)
Flat(R, meta) == Json("object", DataVal("list", FALSE, R), meta, <<>>, <<>>)
Bare(R) == Json("array", NoData, NoMeta, R, <<>>)
ObjectWith(data, meta) == Json("object", data, meta, <<>>, <<>>)
JsonString(text) == Json("string", NoData, NoMeta, <<>>, text)
JsonNumber == Json("number", NoData, NoMeta, <<>>, <<>>)
JsonNull == Json("null", NoData, NoMeta, <<>>, <<>>)

(***************************************************************************)
(* Response Normalizer: get, lines 178-228.                                *)
(***************************************************************************)
\* Python: key in response.  A dict is asked for the key, a list for an equal
\* element, a string for a substring; a number or null raises TypeError.
KeyIn(key, keytext, response) ==
    CASE response.kind = "object" ->
            [exc |-> "none",
             val |-> IF key = "data" THEN response.data.kind # "absent"
                     ELSE response.meta.kind # "absent"]
      [] response.kind = "array" ->
            [exc |-> "none",
             val |-> \E i \in 1..Len(response.items) :
                        /\ response.items[i].kind = "str"
                        /\ response.items[i].text = keytext]
      [] response.kind = "string" ->
            [exc |-> "none", val |-> Contains(response.text, keytext)]
      [] OTHER -> [exc |-> "TypeError", val |-> FALSE]

\* Python: response[key] for a string key raises TypeError on a list or string
Subscriptable(response) == response.kind = "object"

PricesDataNoFlat(response) ==
    LET has == KeyIn("data", TextData, response)
    IN  IF has.exc # "none" THEN [exc |-> has.exc, items |-> <<>>]
        ELSE IF has.val /\ ~Subscriptable(response)
        THEN [exc |-> "TypeError", items |-> <<>>]
        ELSE IF has.val /\ response.data.kind = "dict" /\ response.data.has_prices
        THEN [exc |-> "none", items |-> response.data.items]
        ELSE [exc |-> "none",
              items |-> IF response.kind = "array" THEN response.items ELSE <<>>]

\* lines 180-185: the raw records of the response
prices_data(response) ==
    LET has == KeyIn("data", TextData, response)
    IN  IF has.exc # "none" THEN [exc |-> has.exc, items |-> <<>>]
        ELSE IF has.val /\ ~Subscriptable(response)
        THEN [exc |-> "TypeError", items |-> <<>>]
        ELSE IF has.val /\ response.data.kind = "dict" /\ response.data.has_prices
        THEN [exc |-> "none", items |-> response.data.items]
        ELSE IF has.val /\ response.data.kind = "list"
        THEN [exc |-> "none", items |-> response.data.items]
        ELSE [exc |-> "none",
              items |-> IF response.kind = "array" THEN response.items ELSE <<>>]

\* Python: d.get(key) and d.get(key, default)
DictGet(v, default) == IF v = Absent THEN default ELSE v

MappedDataNoDefaults(price_data) ==
    [created_at |-> DictGet(price_data.created_at, None),
     commodity_name |-> DictGet(price_data.code,
                                DictGet(price_data.commodity_name, None)),
     price |-> DictGet(price_data.price, None),
     unit_of_measure |-> DictGet(price_data.unit, None),
     type_name |-> DictGet(price_data.type, None)]

\* lines 192-198: the raw record's fields under the model's field names
mapped_data(price_data) ==
    [created_at |-> DictGet(price_data.created_at, None),
     commodity_name |-> DictGet(price_data.code,
                                DictGet(price_data.commodity_name, None)),
     price |-> DictGet(price_data.price, None),
     unit_of_measure |-> DictGet(price_data.unit, "barrel"),
     type_name |-> DictGet(price_data.type, "spot_price")]

\* models.HistoricalPrice(**mapped_data): a record without its timestamp or
\* its price cannot be constructed
HistoricalPrice(m) ==
    IF m.created_at = None \/ m.price = None
    THEN [exc |-> "ValidationError", date |-> None, commodity |-> None,
          value |-> None, unit |-> None, type_name |-> None]
    ELSE [exc |-> "none", date |-> m.created_at, commodity |-> m.commodity_name,
          value |-> m.price, unit |-> m.unit_of_measure,
          type_name |-> m.type_name]

RECURSIVE build_prices(_)
\* lines 188-199: one HistoricalPrice per dict item, in order; other items
\* are passed over; the first construction error ends the loop
build_prices(items) ==
    IF items = <<>> THEN [exc |-> "none", prices |-> <<>>]
    ELSE LET price_data == Head(items)
             rest == build_prices(Tail(items))
         IN  IF price_data.kind # "dict" THEN rest
             ELSE LET hp == HistoricalPrice(mapped_data(price_data))
                  IN  IF hp.exc # "none" THEN [exc |-> hp.exc, prices |-> <<>>]
                      ELSE IF rest.exc # "none" THEN rest
                      ELSE [exc |-> "none", prices |-> <<hp>> \o rest.prices]

\* models.PaginationMeta(...)
PaginationMeta(page, per_page, total, total_pages, has_next, has_prev) ==
    [page |-> page, per_page |-> per_page, total |-> total,
     total_pages |-> total_pages, has_next |-> has_next, has_prev |-> has_prev]

\* Python: meta_data.get(key, default)
MetaGet(meta_data, key, default) ==
    IF key \in meta_data.keys THEN meta_data[key] ELSE default

BuildMetaHasNextAtLeast(response, prices, page, per_page) ==
    LET has == KeyIn("meta", TextMeta, response)
    IN  IF has.exc # "none"
        THEN [exc |-> has.exc, meta |-> PaginationMeta(0, 0, 0, 0, FALSE, FALSE)]
        ELSE IF has.val /\ ~Subscriptable(response)
        THEN [exc |-> "TypeError", meta |-> PaginationMeta(0, 0, 0, 0, FALSE, FALSE)]
        ELSE IF has.val /\ response.meta.kind # "dict"
        THEN [exc |-> "AttributeError",
              meta |-> PaginationMeta(0, 0, 0, 0, FALSE, FALSE)]
        ELSE IF has.val
        THEN [exc |-> "none",
              meta |-> PaginationMeta(
                  MetaGet(response.meta, "page", page),
                  MetaGet(response.meta, "per_page", per_page),
                  MetaGet(response.meta, "total", Len(prices)),
                  MetaGet(response.meta, "total_pages", 1),
                  MetaGet(response.meta, "has_next", FALSE),
                  MetaGet(response.meta, "has_prev", FALSE))]
        ELSE [exc |-> "none",
              meta |-> PaginationMeta(page, per_page, Len(prices), 1,
                                      Len(prices) >= per_page, page > 1)]

BuildMetaInfersMissingHasNext(response, prices, page, per_page) ==
    LET has == KeyIn("meta", TextMeta, response)
    IN  IF has.exc # "none"
        THEN [exc |-> has.exc, meta |-> PaginationMeta(0, 0, 0, 0, FALSE, FALSE)]
        ELSE IF has.val /\ ~Subscriptable(response)
        THEN [exc |-> "TypeError", meta |-> PaginationMeta(0, 0, 0, 0, FALSE, FALSE)]
        ELSE IF has.val /\ response.meta.kind # "dict"
        THEN [exc |-> "AttributeError",
              meta |-> PaginationMeta(0, 0, 0, 0, FALSE, FALSE)]
        ELSE IF has.val
        THEN [exc |-> "none",
              meta |-> PaginationMeta(
                  MetaGet(response.meta, "page", page),
                  MetaGet(response.meta, "per_page", per_page),
                  MetaGet(response.meta, "total", Len(prices)),
                  MetaGet(response.meta, "total_pages", 1),
                  MetaGet(response.meta, "has_next", Len(prices) = per_page),
                  MetaGet(response.meta, "has_prev", FALSE))]
        ELSE [exc |-> "none",
              meta |-> PaginationMeta(page, per_page, Len(prices), 1,
                                      Len(prices) = per_page, page > 1)]

\* lines 202-222: the page's metadata, copied from the meta block or inferred
build_meta(response, prices, page, per_page) ==
    LET has == KeyIn("meta", TextMeta, response)
    IN  IF has.exc # "none"
        THEN [exc |-> has.exc, meta |-> PaginationMeta(0, 0, 0, 0, FALSE, FALSE)]
        ELSE IF has.val /\ ~Subscriptable(response)
        THEN [exc |-> "TypeError", meta |-> PaginationMeta(0, 0, 0, 0, FALSE, FALSE)]
        ELSE IF has.val /\ response.meta.kind # "dict"
        THEN [exc |-> "AttributeError",
              meta |-> PaginationMeta(0, 0, 0, 0, FALSE, FALSE)]
        ELSE IF has.val
        THEN [exc |-> "none",
              meta |-> PaginationMeta(
                  MetaGet(response.meta, "page", page),
                  MetaGet(response.meta, "per_page", per_page),
                  MetaGet(response.meta, "total", Len(prices)),
                  MetaGet(response.meta, "total_pages", 1),
                  MetaGet(response.meta, "has_next", FALSE),
                  MetaGet(response.meta, "has_prev", FALSE))]
        ELSE [exc |-> "none",
              meta |-> PaginationMeta(page, per_page, Len(prices), 1,
                                      Len(prices) = per_page, page > 1)]

\* models.HistoricalResponse(success, data, meta)
HistoricalResponse(success, data, meta) ==
    [success |-> success, data |-> data, meta |-> meta]
NoResponse ==
    HistoricalResponse(FALSE, <<>>, PaginationMeta(0, 0, 0, 0, FALSE, FALSE))

\* get, lines 178-228: the HistoricalResponse made of the transport's answer,
\* or the error raised on the way
get_response(response, page, per_page) ==
    LET pd == prices_data(response)
        bp == build_prices(pd.items)
        bm == build_meta(response, bp.prices, page, per_page)
    IN  IF pd.exc # "none" THEN [exc |-> pd.exc, response |-> NoResponse]
        ELSE IF bp.exc # "none" THEN [exc |-> bp.exc, response |-> NoResponse]
        ELSE IF bm.exc # "none" THEN [exc |-> bm.exc, response |-> NoResponse]
        ELSE [exc |-> "none",
              response |-> HistoricalResponse(TRUE, bp.prices, bm.meta)]

(***************************************************************************)
(* Enumerated inputs.                                                      *)
(***************************************************************************)
\* a record with every field, and a record that names its commodity only by
\* commodity_name and leaves unit and type to the defaults
R1 == RawRecord("2024-01-01T10:00:00Z", "WTI_USD", "Crude Oil WTI", "75.5",
                "gallon", "futures")
R2 == RawRecord("2024-01-02T10:00:00Z", Absent, "BRENT_CRUDE_USD", "80.25",
                Absent, Absent)
\* records without their timestamp, without their price
NoTimestamp == RawRecord(Absent, "WTI_USD", Absent, "76.0", "barrel", "spot_price")
NoPrice == RawRecord("2024-01-03T10:00:00Z", "WTI_USD", Absent, Absent, Absent, Absent)

\* the well-formed record lists R1, R2, R1, ... of length 0..MaxRecords
RecordList(n) == [i \in 1..n |-> IF i % 2 = 1 THEN R1 ELSE R2]
RecordLists == {RecordList(n) : n \in 0..MaxRecords}

\* meta blocks: a page followed by another, a last page, a block without
\* has_next and has_prev
MetaNext == MetaVal("dict", MetaKeys, 7, 50, 120, 3, TRUE, FALSE)
MetaLast == MetaVal("dict", MetaKeys, 9, 50, 120, 3, FALSE, TRUE)
MetaPartial == MetaVal("dict", {"page", "total"}, 7, 0, 120, 0, FALSE, FALSE)
\* a block without page, per_page, total and has_next
MetaSparse == MetaVal("dict", {"total_pages", "has_prev"}, 0, 0, 0, 5, FALSE, TRUE)

\* responses in one of the three supported shapes, all records well-formed
SupportedResponses ==
    {Nested(R, NoMeta) : R \in RecordLists}
        \cup {Flat(R, NoMeta) : R \in RecordLists}
        \cup {Bare(R) : R \in RecordLists}
        \cup {Nested(R, m) : R \in RecordLists, m \in {MetaNext, MetaLast}}
        \cup {Nested(<<R1>>, MetaPartial), Flat(<<R1, R2>>, MetaLast)}
        \cup {Nested(<<R1, R2>>, MetaSparse)}

\* supported shapes holding a malformed record or an item that is no dict
MalformedResponses ==
    {Nested(<<R1, NoTimestamp, R2>>, NoMeta), Flat(<<NoPrice, R1>>, MetaNext),
     Bare(<<R1, NumItem, R2>>), Bare(<<R1, StrItem(TextData)>>)}

\* every other JSON value: {"error": ...}, {"data": "x"}, {"data": {}},
\* {"error": ..., "meta": {...}}, 42, null, "no data", "oops", "meta"
UnsupportedResponses ==
    {ObjectWith(NoData, NoMeta),
     ObjectWith(DataVal("other", FALSE, <<>>), NoMeta),
     ObjectWith(DataVal("dict", FALSE, <<>>), NoMeta),
     ObjectWith(NoData, MetaNext),
     JsonNumber, JsonNull,
     JsonString(TextNoData), JsonString(TextOops), JsonString(TextMeta)}

Responses == SupportedResponses \cup MalformedResponses \cup UnsupportedResponses

Call(op, start_date, end_date, page, per_page, timeout) ==
    [op |-> op, commodity |-> "WTI_USD", start_date |-> start_date,
     end_date |-> end_date, interval |-> "daily", page |-> page,
     per_page |-> per_page, type_name |-> "spot_price", timeout |-> timeout]

\* date ranges of every day count from -MaxBack to MaxDays
RangePairs == {<<Date(MaxBack), Date(MaxBack + k)>> : k \in (0 - MaxBack)..MaxDays}
\* date-like inputs of every kind
KindPairs ==
    {NoDate, EmptyStr, BadStr, IsoStr(0), DateTime(0, 23)}
        \X {NoDate, BadStr, IsoStr(7), DateTime(8, 1), Date(31)}
DriverPairs ==
    {<<NoDate, NoDate>>, <<Date(0), DateTime(8, 1)>>, <<BadStr, IsoStr(3)>>}
\* ISO strings that carry a time of day
TimedStringPairs ==
    {<<IsoDateTimeStr(0, 10), IsoDateTimeStr(8, 1)>>, <<NoDate, IsoDateTimeStr(8, 1)>>}

\* a call for another commodity, interval and price type
OtherSeriesCall ==
    [Call("get", NoDate, NoDate, 1, 1000, NoTimeout) EXCEPT
        !.commodity = "BRENT_CRUDE_USD", !.interval = "weekly",
        !.type_name = "futures"]

GetCalls ==
    {Call("get", p[1], p[2], 1, 2, t) :
        p \in RangePairs, t \in {NoTimeout, Timeout(0), Timeout(45)}}
        \cup {Call("get", p[1], p[2], pp[1], pp[2], t) :
                p \in KindPairs, pp \in {<<1, 2>>, <<2, 1001>>},
                t \in {NoTimeout, Timeout(45)}}
        \cup {Call("get", p[1], p[2], 1, 2, NoTimeout) : p \in TimedStringPairs}
        \cup {OtherSeriesCall}
GetAllCalls == {Call("get_all", p[1], p[2], 1, 1000, NoTimeout) : p \in DriverPairs}
IterPagesCalls ==
    {Call("iter_pages", p[1], p[2], 1, pp, NoTimeout) :
        p \in DriverPairs, pp \in {1, 2}}
        \cup {Call("iter_pages", NoDate, NoDate, 1, 1001, NoTimeout)}

(***************************************************************************)
(* State.                                                                  *)
(***************************************************************************)
VARIABLES
    args,        \* the call: operation and arguments
    pc,          \* "created": iter_pages generator not yet started
                 \* "ready": about to call get for the page `page`
                 \* "awaiting": get's request is with the transport
                 \* "suspended": iter_pages generator stands at its yield
                 \* "done": returned (get, get_all) or exhausted (iter_pages)
                 \* "raised": ended with the exception `error`
                 \* "closed": the consumer dropped the suspended generator
    page,        \* page number of the current or next get
    requests,    \* requests handed to the transport, in order
    served,      \* JSON values the transport returned, in order
    response,    \* HistoricalResponse of the latest get that returned
    all_prices,  \* get_all's accumulator
    yielded,     \* batches iter_pages has yielded, in order
    advances,    \* times the consumer has advanced the iter_pages generator
    error,       \* exception that ended the call, "none" otherwise
    strategy,    \* the RetryStrategy of the client's request loop
    attempt,     \* the loop's attempt number, 0-indexed
    outcomes,    \* what each HTTP call of the loop ended with, in order
    result,      \* "pending" while the loop runs, then "success" or "error";
                 \* "idle" when no loop is under study
    call_args,   \* concurrent calls on one resource: the arguments of each
    frames,      \* the locals of each running call (Python frame)
    sent,        \* per call, the requests it handed to the transport
    delivered,   \* per call, the JSON values the transport returned to it
    jitter,      \* RetryStrategy.jitter of the strategy asked for wait times
    wait_attempt, \* attempt number of the latest calculate_wait_time call
    wait_time,   \* what that call returned, in tenths of a second
    prev_wait,   \* what the call for the attempt before returned
    enabled,     \* Telemetry.enabled
    events,      \* Telemetry._events, the event buffer
    threads,     \* per thread using the Telemetry, its position and locals
    payloads,    \* the events _flush has placed in payloads, as a bag
    tracked      \* the track_request calls made, in the order they began

retry_vars == <<strategy, attempt, outcomes, result>>
conc_vars == <<call_args, frames, sent, delivered>>
wait_vars == <<jitter, wait_attempt, wait_time, prev_wait>>
tel_vars == <<enabled, events, threads, payloads, tracked>>

vars == <<args, pc, page, requests, served, response, all_prices, yielded,
          advances, error, retry_vars, conc_vars, wait_vars, tel_vars>>

GeneratorStartsEagerly == "ready"

\* iter_pages is a generator function: calling it runs none of its body
generator_start == "created"

\* no wait time has been asked for
WaitIdle ==
    /\ jitter = TRUE
    /\ wait_attempt = 0
    /\ wait_time = 0
    /\ prev_wait = 0

\* Telemetry() with its defaults, unused
TelIdle ==
    /\ enabled = FALSE
    /\ events = <<>>
    /\ threads = <<>>
    /\ payloads = <<>>
    /\ tracked = <<>>

\* no concurrent calls are under study
ConcIdle ==
    /\ call_args = <<>>
    /\ frames = <<>>
    /\ sent = <<>>
    /\ delivered = <<>>

(***************************************************************************)
(* RetryStrategy, retry.py.                                                *)
(***************************************************************************)
\* __init__, lines 17-33: `retry_on or [500, 502, 503, 504]` replaces None
\* and the empty list by the default
RetryStrategy(max_retries, retry_on) ==
    [max_retries |-> max_retries,
     retry_on |-> IF retry_on = {} THEN {500, 502, 503, 504} ELSE retry_on]

ShouldRetryOneMore(s, n, status_code) ==
    status_code \in s.retry_on /\ n < s.max_retries

\* lines 35-49
should_retry(s, n, status_code) ==
    status_code \in s.retry_on /\ n < s.max_retries - 1

\* lines 51-61
should_retry_on_exception(s, n) == n < s.max_retries - 1

\* what one HTTP call ends with: a response with a status code, or an
\* exception of the transport (timeout, connection error)
Status(code) == [kind |-> "status", code |-> code]
Raised == [kind |-> "exception", code |-> 0]
StatusCodes == {200, 404, 429, 500, 502, 503, 504}

\* strategies with the default retry_on and with a custom one
Strategies ==
    {RetryStrategy(m, ro) : m \in 1..MaxRetryLimit, ro \in {{}, {429, 503}}}

\* no request loop is under study
RetryIdle ==
    /\ strategy = RetryStrategy(3, {})
    /\ attempt = 0
    /\ outcomes = <<>>
    /\ result = "idle"

Init ==
    /\ args \in GetCalls \cup GetAllCalls \cup IterPagesCalls
    /\ pc = IF args.op = "iter_pages" THEN generator_start ELSE "ready"
    /\ page = IF args.op = "get" THEN args.page ELSE 1
    /\ requests = <<>>
    /\ served = <<>>
    /\ response = NoResponse
    /\ all_prices = <<>>
    /\ yielded = <<>>
    /\ advances = 0
    /\ error = "none"
    /\ RetryIdle
    /\ ConcIdle
    /\ WaitIdle
    /\ TelIdle

\* per_page and timeout of the get the call makes: get_all asks for 1000 a
\* page, and neither driver passes a timeout
get_per_page == IF args.op = "get_all" THEN 1000 ELSE args.per_page
get_timeout == IF args.op = "get" THEN args.timeout ELSE NoTimeout

(***************************************************************************)
(* get up to its transport call: lines 148-176.                            *)
(***************************************************************************)
SendRequest ==
    /\ pc = "ready"
    /\ page <= MaxPages
    /\ LET rq == get_request(args, page, get_per_page, get_timeout)
       IN  IF rq.exc # "none"
           THEN /\ pc' = "raised"
                /\ error' = rq.exc
                /\ UNCHANGED requests
           ELSE /\ pc' = "awaiting"
                /\ requests' = Append(requests, rq.request)
                /\ UNCHANGED error
    /\ UNCHANGED <<args, page, served, response, all_prices, yielded, advances>>
    /\ UNCHANGED <<retry_vars, conc_vars, wait_vars, tel_vars>>

TransportErrorRetried ==
    /\ pc = "awaiting"
    /\ pc' = "ready"
    /\ error' = "TransportError"
    /\ UNCHANGED <<args, page, requests, served, response, all_prices, yielded,
                   advances>>
    /\ UNCHANGED <<retry_vars, conc_vars, wait_vars, tel_vars>>

\* the transport raises instead of returning: nothing catches it
TransportError ==
    /\ pc = "awaiting"
    /\ pc' = "raised"
    /\ error' = "TransportError"
    /\ UNCHANGED <<args, page, requests, served, response, all_prices, yielded,
                   advances>>
    /\ UNCHANGED <<retry_vars, conc_vars, wait_vars, tel_vars>>

LastPageOnlyWithoutMeta(r) == FALSE

LastPageWhenEmptyToo(r) == ~r.meta.has_next \/ r.data = <<>>

LastPageWhenNotEmpty(r) == ~r.meta.has_next /\ r.data # <<>>

\* the loop test of both drivers, lines 274-275 and 326-327: the page just
\* fetched is the last one
last_page(r) == ~r.meta.has_next

YieldsEveryPage(r) == TRUE

\* iter_pages, lines 323-324: the page just fetched is yielded
yields(r) == r.data # <<>>

ExtendOverwrites(acc, data) == data

ExtendPrepends(acc, data) == data \o acc

\* get_all, line 272
extend(acc, data) == acc \o data

(***************************************************************************)
ReceiveResponseFollowsMeta(raw) ==
    /\ pc = "awaiting"
    /\ served' = Append(served, raw)
    /\ LET got == get_response(raw, page, get_per_page)
           r == got.response
       IN  IF got.exc # "none"
           THEN /\ pc' = "raised"
                /\ error' = got.exc
                /\ UNCHANGED <<page, response, all_prices, yielded>>
           ELSE /\ response' = r
                /\ UNCHANGED error
                /\ CASE args.op = "get" ->
                          /\ pc' = "done"
                          /\ UNCHANGED <<page, all_prices, yielded>>
                     [] args.op = "get_all" ->
                          /\ all_prices' = extend(all_prices, r.data)
                          /\ pc' = IF last_page(r) THEN "done" ELSE "ready"
                          /\ page' = IF last_page(r) THEN page ELSE r.meta.page + 1
                          /\ UNCHANGED yielded
                     [] args.op = "iter_pages" ->
                          /\ yielded' = IF yields(r) THEN Append(yielded, r.data)
                                        ELSE yielded
                          /\ pc' = IF yields(r) THEN "suspended"
                                   ELSE IF last_page(r) THEN "done"
                                   ELSE "ready"
                          /\ page' = IF ~yields(r) /\ ~last_page(r) THEN r.meta.page + 1
                                     ELSE page
                          /\ UNCHANGED all_prices
    /\ UNCHANGED <<args, requests, advances>>
    /\ UNCHANGED <<retry_vars, conc_vars, wait_vars, tel_vars>>

(* The transport returns `raw`: the rest of get, and the caller's step up  *)
(* to its next transport call, its yield or its end.                       *)
(***************************************************************************)
ReceiveResponse(raw) ==
    /\ pc = "awaiting"
    /\ served' = Append(served, raw)
    /\ LET got == get_response(raw, page, get_per_page)
           r == got.response
       IN  IF got.exc # "none"
           THEN /\ pc' = "raised"
                /\ error' = got.exc
                /\ UNCHANGED <<page, response, all_prices, yielded>>
           ELSE /\ response' = r
                /\ UNCHANGED error
                /\ CASE args.op = "get" ->
                          /\ pc' = "done"
                          /\ UNCHANGED <<page, all_prices, yielded>>
                     [] args.op = "get_all" ->
                          /\ all_prices' = extend(all_prices, r.data)
                          /\ pc' = IF last_page(r) THEN "done" ELSE "ready"
                          /\ page' = IF last_page(r) THEN page ELSE page + 1
                          /\ UNCHANGED yielded
                     [] args.op = "iter_pages" ->
                          /\ yielded' = IF yields(r) THEN Append(yielded, r.data)
                                        ELSE yielded
                          /\ pc' = IF yields(r) THEN "suspended"
                                   ELSE IF last_page(r) THEN "done"
                                   ELSE "ready"
                          /\ page' = IF ~yields(r) /\ ~last_page(r) THEN page + 1
                                     ELSE page
                          /\ UNCHANGED all_prices
    /\ UNCHANGED <<args, requests, advances>>
    /\ UNCHANGED <<retry_vars, conc_vars, wait_vars, tel_vars>>

\* the consumer advances the generator: it starts, or resumes after its yield
Advance ==
    /\ args.op = "iter_pages"
    /\ pc \in {"created", "suspended"}
    /\ advances' = advances + 1
    /\ IF pc = "created"
       THEN pc' = "ready" /\ UNCHANGED page
       ELSE /\ pc' = IF last_page(response) THEN "done" ELSE "ready"
            /\ page' = IF last_page(response) THEN page ELSE page + 1
    /\ UNCHANGED <<args, requests, served, response, all_prices, yielded, error>>
    /\ UNCHANGED <<retry_vars, conc_vars, wait_vars, tel_vars>>

\* the consumer stops iterating and drops the generator
Stop ==
    /\ args.op = "iter_pages"
    /\ pc = "suspended"
    /\ pc' = "closed"
    /\ UNCHANGED <<args, page, requests, served, response, all_prices, yielded,
                   advances, error>>
    /\ UNCHANGED <<retry_vars, conc_vars, wait_vars, tel_vars>>

Next ==
    \/ SendRequest
    \/ TransportError
    \/ \E raw \in Responses : ReceiveResponse(raw)
    \/ Advance
    \/ Stop

Spec == Init /\ [][Next]_vars

\* the transport answers and the consumer keeps consuming
FairSpec == Spec /\ WF_vars(Next)

(***************************************************************************)
(* The client's request loop, driven by the RetryStrategy decisions: an    *)
(* HTTP call is made; a 200 ends the loop in success; after any other      *)
(* status or an exception the loop goes round again when the strategy says *)
(* so, and ends in an error otherwise.                                     *)
(***************************************************************************)
hist_vars == <<args, pc, page, requests, served, response, all_prices, yielded,
               advances, error>>

InitRetry ==
    /\ args = Call("get", NoDate, NoDate, 1, 100, NoTimeout)
    /\ pc = "ready"
    /\ page = 1
    /\ requests = <<>>
    /\ served = <<>>
    /\ response = NoResponse
    /\ all_prices = <<>>
    /\ yielded = <<>>
    /\ advances = 0
    /\ error = "none"
    /\ strategy \in Strategies
    /\ attempt = 0
    /\ outcomes = <<>>
    /\ result = "pending"
    /\ ConcIdle
    /\ WaitIdle
    /\ TelIdle

AttemptSucceeds ==
    /\ result = "pending"
    /\ outcomes' = Append(outcomes, Status(200))
    /\ result' = "success"
    /\ UNCHANGED <<strategy, attempt, hist_vars, conc_vars, wait_vars, tel_vars>>

AttemptFails(status_code) ==
    /\ result = "pending"
    /\ status_code # 200
    /\ outcomes' = Append(outcomes, Status(status_code))
    /\ IF should_retry(strategy, attempt, status_code)
       THEN attempt' = attempt + 1 /\ UNCHANGED result
       ELSE result' = "error" /\ UNCHANGED attempt
    /\ UNCHANGED <<strategy, hist_vars, conc_vars, wait_vars, tel_vars>>

AttemptRaises ==
    /\ result = "pending"
    /\ outcomes' = Append(outcomes, Raised)
    /\ IF should_retry_on_exception(strategy, attempt)
       THEN attempt' = attempt + 1 /\ UNCHANGED result
       ELSE result' = "error" /\ UNCHANGED attempt
    /\ UNCHANGED <<strategy, hist_vars, conc_vars, wait_vars, tel_vars>>

NextRetry ==
    \/ AttemptSucceeds
    \/ \E status_code \in StatusCodes : AttemptFails(status_code)
    \/ AttemptRaises

SpecRetry == InitRetry /\ [][NextRetry]_vars

(***************************************************************************)
(* Calls running concurrently on one HistoricalResource (threads or tasks) *)
(* interleaved at their transport calls and at the generator's yields.     *)
(* The resource holds self.client and nothing else; page, all_prices and   *)
(* response are locals of each call.                                       *)
(***************************************************************************)
CallIds == 1..MaxCalls

SharedFrame(c) == 1

\* the frame holding the locals of call c: every invocation has its own
frame_of(c) == c

\* per_page and timeout of the get a call with arguments a makes
per_page_of(a) == IF a.op = "get_all" THEN 1000 ELSE a.per_page
timeout_of(a) == IF a.op = "get" THEN a.timeout ELSE NoTimeout

\* the locals of a call at its start
Frame(a) ==
    [args |-> a,
     pc |-> IF a.op = "iter_pages" THEN generator_start ELSE "ready",
     page |-> IF a.op = "get" THEN a.page ELSE 1,
     response |-> NoResponse, all_prices |-> <<>>, yielded |-> <<>>,
     error |-> "none"]

\* the locals after get's answer `raw`: rest of get, then the caller's step
frame_received(l, raw) ==
    LET got == get_response(raw, l.page, per_page_of(l.args))
        r == got.response
    IN  IF got.exc # "none"
        THEN [l EXCEPT !.pc = "raised", !.error = got.exc]
        ELSE CASE l.args.op = "get" ->
                    [l EXCEPT !.response = r, !.pc = "done"]
               [] l.args.op = "get_all" ->
                    [l EXCEPT !.response = r,
                              !.all_prices = extend(l.all_prices, r.data),
                              !.pc = IF last_page(r) THEN "done" ELSE "ready",
                              !.page = IF last_page(r) THEN l.page
                                       ELSE l.page + 1]
               [] l.args.op = "iter_pages" ->
                    [l EXCEPT !.response = r,
                              !.yielded = IF yields(r) THEN Append(l.yielded, r.data)
                                          ELSE l.yielded,
                              !.pc = IF yields(r) THEN "suspended"
                                     ELSE IF last_page(r) THEN "done"
                                     ELSE "ready",
                              !.page = IF ~yields(r) /\ ~last_page(r)
                                       THEN l.page + 1 ELSE l.page]

\* the calls of the concurrency tests: one per commodity
ConcCalls(commodity) ==
    {[a EXCEPT !.commodity = commodity] :
        a \in {Call("get", IsoStr(0), IsoStr(8), 1, 2, NoTimeout),
               Call("get_all", NoDate, NoDate, 1, 1000, NoTimeout),
               Call("iter_pages", Date(0), Date(3), 1, 1, NoTimeout)}}
Commodities == <<"WTI_USD", "BRENT_CRUDE_USD", "NATURAL_GAS_USD">>
ConcResponses ==
    {Nested(<<R1>>, MetaNext), Nested(<<R1, R2>>, NoMeta), Bare(<<>>), JsonNull}

InitConc ==
    /\ args = Call("get", NoDate, NoDate, 1, 100, NoTimeout)
    /\ pc = "ready"
    /\ page = 1
    /\ requests = <<>>
    /\ served = <<>>
    /\ response = NoResponse
    /\ all_prices = <<>>
    /\ yielded = <<>>
    /\ advances = 0
    /\ error = "none"
    /\ RetryIdle
    /\ WaitIdle
    /\ TelIdle
    /\ call_args \in [CallIds -> UNION {ConcCalls(Commodities[c]) : c \in CallIds}]
    /\ \A c \in CallIds : call_args[c].commodity = Commodities[c]
    /\ frames = [c \in CallIds |-> Frame(call_args[c])]
    /\ sent = [c \in CallIds |-> <<>>]
    /\ delivered = [c \in CallIds |-> <<>>]

\* call c runs get up to its transport call
ConcSendRequest(c) ==
    LET f == frame_of(c)
        l == frames[f]
        rq == get_request(l.args, l.page, per_page_of(l.args), timeout_of(l.args))
    IN  /\ l.pc = "ready"
        /\ l.page <= MaxConcPages
        /\ IF rq.exc # "none"
           THEN /\ frames' = [frames EXCEPT ![f] = [l EXCEPT !.pc = "raised",
                                                              !.error = rq.exc]]
                /\ UNCHANGED sent
           ELSE /\ frames' = [frames EXCEPT ![f] = [l EXCEPT !.pc = "awaiting"]]
                /\ sent' = [sent EXCEPT ![c] = Append(sent[c], rq.request)]
        /\ UNCHANGED <<call_args, delivered, hist_vars, retry_vars, wait_vars,
                       tel_vars>>

\* the transport raises in call c
ConcTransportError(c) ==
    LET f == frame_of(c)
    IN  /\ frames[f].pc = "awaiting"
        /\ Len(sent[c]) > Len(delivered[c])
        /\ frames' = [frames EXCEPT ![f] = [frames[f] EXCEPT
                          !.pc = "raised", !.error = "TransportError"]]
        /\ UNCHANGED <<call_args, sent, delivered, hist_vars, retry_vars, wait_vars,
                       tel_vars>>

\* the transport returns `raw` to call c
ConcReceiveResponse(c, raw) ==
    LET f == frame_of(c)
    IN  /\ frames[f].pc = "awaiting"
        /\ Len(sent[c]) > Len(delivered[c])
        /\ delivered' = [delivered EXCEPT ![c] = Append(delivered[c], raw)]
        /\ frames' = [frames EXCEPT ![f] = frame_received(frames[f], raw)]
        /\ UNCHANGED <<call_args, sent, hist_vars, retry_vars, wait_vars,
                       tel_vars>>

\* the consumer of call c advances its generator
ConcAdvance(c) ==
    LET f == frame_of(c)
        l == frames[f]
    IN  /\ call_args[c].op = "iter_pages"
        /\ l.pc \in {"created", "suspended"}
        /\ frames' = [frames EXCEPT ![f] =
               IF l.pc = "created" THEN [l EXCEPT !.pc = "ready"]
               ELSE [l EXCEPT !.pc = IF last_page(l.response) THEN "done"
                                     ELSE "ready",
                              !.page = IF last_page(l.response) THEN l.page
                                       ELSE l.page + 1]]
        /\ UNCHANGED <<call_args, sent, delivered, hist_vars, retry_vars, wait_vars,
                       tel_vars>>

\* the consumer of call c drops its generator
ConcStop(c) ==
    LET f == frame_of(c)
    IN  /\ call_args[c].op = "iter_pages"
        /\ frames[f].pc = "suspended"
        /\ frames' = [frames EXCEPT ![f] = [frames[f] EXCEPT !.pc = "closed"]]
        /\ UNCHANGED <<call_args, sent, delivered, hist_vars, retry_vars, wait_vars,
                       tel_vars>>

NextConc ==
    \E c \in CallIds :
        \/ ConcSendRequest(c)
        \/ ConcTransportError(c)
        \/ \E raw \in ConcResponses : ConcReceiveResponse(c, raw)
        \/ ConcAdvance(c)
        \/ ConcStop(c)

SpecConc == InitConc /\ [][NextConc]_vars

\* get_all as call 1 and iter_pages with per_page = 1000 as every other
\* call, on the same arguments
PairCalls(p) ==
    [c \in CallIds |->
        IF c = 1 THEN Call("get_all", p[1], p[2], 1, 1000, NoTimeout)
        ELSE Call("iter_pages", p[1], p[2], 1, 1000, NoTimeout)]
\* the backend's pages: with and without meta block, empty pages that are
\* and are not the last, a body that cannot be parsed
PairResponses == ConcResponses \cup {Nested(<<>>, MetaNext)}

InitPair ==
    /\ args = Call("get", NoDate, NoDate, 1, 100, NoTimeout)
    /\ pc = "ready"
    /\ page = 1
    /\ requests = <<>>
    /\ served = <<>>
    /\ response = NoResponse
    /\ all_prices = <<>>
    /\ yielded = <<>>
    /\ advances = 0
    /\ error = "none"
    /\ RetryIdle
    /\ WaitIdle
    /\ TelIdle
    /\ call_args \in {PairCalls(p) : p \in DriverPairs}
    /\ frames = [c \in CallIds |-> Frame(call_args[c])]
    /\ sent = [c \in CallIds |-> <<>>]
    /\ delivered = [c \in CallIds |-> <<>>]

\* one backend serves all calls: the answer to the k-th fetch of call c is
\* the answer any other call got to its k-th fetch
SameBackend(c, raw) ==
    \A d \in CallIds :
        Len(delivered[d]) > Len(delivered[c]) =>
            delivered[d][Len(delivered[c]) + 1] = raw

\* both retrievals run to their end against the same backend; the consumer
\* of iter_pages iterates to exhaustion
NextPair ==
    \E c \in CallIds :
        \/ ConcSendRequest(c)
        \/ \E raw \in PairResponses :
               SameBackend(c, raw) /\ ConcReceiveResponse(c, raw)
        \/ ConcAdvance(c)

SpecPair == InitPair /\ [][NextPair]_vars

(***************************************************************************)
(* RetryStrategy.calculate_wait_time, retry.py lines 63-94, asked for the  *)
(* wait of attempt 0, 1, 2, ...  Times are in tenths of a second;          *)
(* random.uniform(0, 0.3 * base_wait) is a draw u of 0, 0.1, 0.2 or 0.3    *)
(* times base_wait.                                                        *)
(***************************************************************************)
\* the historical call at rest, for the specifications of other components
HistIdle ==
    /\ args = Call("get", NoDate, NoDate, 1, 100, NoTimeout)
    /\ pc = "ready"
    /\ page = 1
    /\ requests = <<>>
    /\ served = <<>>
    /\ response = NoResponse
    /\ all_prices = <<>>
    /\ yielded = <<>>
    /\ advances = 0
    /\ error = "none"

JitterDraws == 0..3

WaitTimeUncapped(j, n, u) ==
    LET base_wait == 2 ^ n
    IN  IF j THEN 10 * base_wait + u * base_wait ELSE 10 * base_wait

WaitTimeDoubleJitter(j, n, u) ==
    LET base_wait == Min(2 ^ n, 60)
    IN  IF j THEN 10 * base_wait + 2 * u * base_wait ELSE 10 * base_wait

calculate_wait_time(j, n, u) ==
    LET base_wait == Min(2 ^ n, 60)
    IN  IF j THEN 10 * base_wait + u * base_wait ELSE 10 * base_wait

InitBackoff ==
    /\ HistIdle
    /\ RetryIdle
    /\ ConcIdle
    /\ TelIdle
    /\ jitter \in BOOLEAN
    /\ wait_attempt = 0
    /\ wait_time \in {calculate_wait_time(jitter, 0, u) : u \in JitterDraws}
    /\ prev_wait = 0

\* the wait of the next attempt is asked for
CalculateWaitTime(u) ==
    /\ wait_attempt < MaxAttempt
    /\ wait_attempt' = wait_attempt + 1
    /\ wait_time' = calculate_wait_time(jitter, wait_attempt + 1, u)
    /\ prev_wait' = wait_time
    /\ UNCHANGED <<jitter, hist_vars, retry_vars, conc_vars, tel_vars>>

NextBackoff == \E u \in JitterDraws : CalculateWaitTime(u)

SpecBackoff == InitBackoff /\ [][NextBackoff]_vars

(***************************************************************************)
(* Telemetry, telemetry.py.                                                *)
(*                                                                         *)
(* A metadata dict is the set of its <<key, value>> items.  The clock      *)
(* reading of an event is the number of the track_request call that made   *)
(* it.  Durations are given in microseconds.                               *)
(***************************************************************************)
Metadata(kind, items) == [kind |-> kind, items |-> items]
NoMetadata == Metadata("none", {})
Dict(items) == Metadata("dict", items)

\* Python: `if metadata`
MetadataTruthy(metadata) == metadata.kind = "dict" /\ metadata.items # {}

\* line 156
AllowedKeys == {"query_type", "interval", "endpoint_used"}

SafeMetadataKeepsAll(metadata) == metadata.items

\* lines 154-157
safe_metadata(metadata) == {item \in metadata.items : item[1] \in AllowedKeys}

TelCall(operation, duration_us, success, error_type, metadata) ==
    [operation |-> operation, duration_us |-> duration_us, success |-> success,
     error_type |-> error_type, metadata |-> metadata]

\* lines 139-158: the event of a call made at clock reading t
track_event(call, t) ==
    [type |-> "request", session_id |-> "session", sdk_version |-> "sdk",
     python_version |-> "python", platform |-> "platform",
     operation |-> call.operation,
     duration_ms |-> call.duration_us \div 1000,
     success |-> call.success, error_type |-> call.error_type,
     timestamp |-> t,
     has_metadata |-> MetadataTruthy(call.metadata),
     metadata |-> IF MetadataTruthy(call.metadata)
                  THEN safe_metadata(call.metadata) ELSE {}]
NoEvent == track_event(TelCall("", 0, FALSE, None, NoMetadata), 0)

FlushThreshold == 10

FlushNeededAbove(n, elapsed) == n > FlushThreshold \/ elapsed

\* line 167: the buffer is large or the flush interval has elapsed
flush_needed(n, elapsed) == n >= FlushThreshold \/ elapsed

\* thread 0 is the background flush thread, the others call track_request
Flusher == 0
Thread(pc_, event, copy) == [pc |-> pc_, event |-> event, copy |-> copy]
\* where a thread is between two operations
rest_pc(th) == IF th = Flusher THEN "sleep" ELSE "idle"

\* the events of a sequence, as a bag
RECURSIVE SeqToBag(_)
SeqToBag(s) ==
    IF s = <<>> THEN EmptyBag ELSE SetToBag({Head(s)}) (+) SeqToBag(Tail(s))

TelMetadatas ==
    {NoMetadata, Dict({}),
     Dict({<<"query_type", "historical">>}),
     Dict({<<"query_type", "historical">>, <<"commodity", "WTI_USD">>}),
     Dict({<<"commodity", "WTI_USD">>}),
     Dict({<<"commodity", "BRENT_CRUDE_USD">>, <<"api_key", "secret">>}),
     Dict({<<"interval", "daily">>, <<"endpoint_used", "past_week">>,
           <<"start_date", "2024-01-01">>})}
TelCalls ==
    {TelCall("historical.get", 1234567, TRUE, None, m) : m \in TelMetadatas}
        \cup {TelCall("prices.get", 30000999, FALSE, "TimeoutError", NoMetadata)}
PlainCall == TelCall("historical.get", 1234567, TRUE, None, NoMetadata)

\* Telemetry(enabled=...): the flush thread is started when enabled
InitTelemetry(trackers) ==
    /\ HistIdle
    /\ RetryIdle
    /\ ConcIdle
    /\ WaitIdle
    /\ enabled \in BOOLEAN
    /\ events = <<>>
    /\ threads = [th \in trackers \cup (IF enabled THEN {Flusher} ELSE {}) |->
                      Thread(rest_pc(th), NoEvent, <<>>)]
    /\ payloads = EmptyBag
    /\ tracked = <<>>

\* track_request on a disabled Telemetry: lines 136-137
TrackDisabled(th, call) ==
    /\ ~enabled
    /\ th \in DOMAIN threads /\ th # Flusher
    /\ threads[th].pc = "idle"
    /\ tracked' = Append(tracked, call)
    /\ UNCHANGED <<enabled, events, threads, payloads>>
    /\ UNCHANGED <<hist_vars, retry_vars, conc_vars, wait_vars>>

\* track_request up to its lock: lines 136-158
TrackBegin(th, call) ==
    /\ enabled
    /\ th \in DOMAIN threads /\ th # Flusher
    /\ threads[th].pc = "idle"
    /\ tracked' = Append(tracked, call)
    /\ threads' = [threads EXCEPT ![th] =
           Thread("append", track_event(call, Len(tracked) + 1), <<>>)]
    /\ UNCHANGED <<enabled, events, payloads>>
    /\ UNCHANGED <<hist_vars, retry_vars, conc_vars, wait_vars>>

\* lines 160-161, under the lock
TrackAppend(th) ==
    /\ th \in DOMAIN threads
    /\ threads[th].pc = "append"
    /\ events' = Append(events, threads[th].event)
    /\ threads' = [threads EXCEPT ![th] = Thread("check", NoEvent, <<>>)]
    /\ UNCHANGED <<enabled, payloads, tracked>>
    /\ UNCHANGED <<hist_vars, retry_vars, conc_vars, wait_vars>>

\* lines 166-168: the buffer's length is read without the lock
TrackCheck(th, elapsed) ==
    /\ th \in DOMAIN threads
    /\ threads[th].pc = "check"
    /\ threads' = [threads EXCEPT ![th] =
           Thread(IF flush_needed(Len(events), elapsed) THEN "flush" ELSE "idle",
                  NoEvent, <<>>)]
    /\ UNCHANGED <<enabled, events, payloads, tracked>>
    /\ UNCHANGED <<hist_vars, retry_vars, conc_vars, wait_vars>>

\* _flush_loop, lines 209-211: the sleep is over
FlushWake ==
    /\ Flusher \in DOMAIN threads
    /\ threads[Flusher].pc = "sleep"
    /\ enabled
    /\ threads' = [threads EXCEPT ![Flusher] = Thread("flush", NoEvent, <<>>)]
    /\ UNCHANGED <<enabled, events, payloads, tracked>>
    /\ UNCHANGED <<hist_vars, retry_vars, conc_vars, wait_vars>>

\* _flush, lines 172-181: under the lock the buffer is copied and cleared
FlushTake(th) ==
    /\ th \in DOMAIN threads
    /\ threads[th].pc = "flush"
    /\ IF ~enabled \/ events = <<>>
       THEN /\ threads' = [threads EXCEPT ![th] = Thread(rest_pc(th), NoEvent, <<>>)]
            /\ UNCHANGED events
       ELSE /\ threads' = [threads EXCEPT ![th] = Thread("post", NoEvent, events)]
            /\ events' = <<>>
    /\ UNCHANGED <<enabled, payloads, tracked>>
    /\ UNCHANGED <<hist_vars, retry_vars, conc_vars, wait_vars>>

\* _flush, lines 183-205: the payload is built and posted; a failed post is
\* passed over in silence
FlushPost(th) ==
    /\ th \in DOMAIN threads
    /\ threads[th].pc = "post"
    /\ payloads' = payloads (+) SeqToBag(threads[th].copy)
    /\ threads' = [threads EXCEPT ![th] = Thread(rest_pc(th), NoEvent, <<>>)]
    /\ UNCHANGED <<enabled, events, tracked>>
    /\ UNCHANGED <<hist_vars, retry_vars, conc_vars, wait_vars>>

InitTel == InitTelemetry({1})

\* one thread tracking calls of every kind
NextTel ==
    \/ \E call \in TelCalls :
            /\ Len(tracked) < MaxTracked
            /\ TrackDisabled(1, call) \/ TrackBegin(1, call)
    \/ TrackAppend(1)
    \/ \E elapsed \in BOOLEAN : TrackCheck(1, elapsed)
    \/ FlushWake
    \/ \E th \in {Flusher, 1} : FlushTake(th) \/ FlushPost(th)

SpecTel == InitTel /\ [][NextTel]_vars

\* the threads that call track_request concurrently
Trackers == 1..MaxTrackers

\* track_request up to the release of its lock, lines 136-161: building the
\* event touches nothing shared, so it is taken in one step with the append
TrackRequest(th, call) ==
    /\ enabled
    /\ th \in DOMAIN threads /\ th # Flusher
    /\ threads[th].pc = "idle"
    /\ tracked' = Append(tracked, call)
    /\ events' = Append(events, track_event(call, Len(tracked) + 1))
    /\ threads' = [threads EXCEPT ![th] = Thread("check", NoEvent, <<>>)]
    /\ UNCHANGED <<enabled, payloads>>
    /\ UNCHANGED <<hist_vars, retry_vars, conc_vars, wait_vars>>

InitTelConc == InitTelemetry(Trackers) /\ enabled

\* concurrent track_request calls and the flush thread, in any interleaving
NextTelConc ==
    \/ \E th \in Trackers :
            /\ Len(tracked) < MaxEvents
            /\ TrackRequest(th, PlainCall)
    \/ \E th \in Trackers, elapsed \in BOOLEAN : TrackCheck(th, elapsed)
    \/ FlushWake
    \/ \E th \in Trackers \cup {Flusher} : FlushTake(th)
    \/ \E th \in Trackers \cup {Flusher} : FlushPost(th)

SpecTelConc == InitTelConc /\ [][NextTelConc]_vars

(***************************************************************************)
(* Vocabulary of the properties.                                           *)
(***************************************************************************)
\* the caller supplied no date for this bound
AbsentBound(d) == d.kind \in {"none", "emptystr"}
BothBounds == ~AbsentBound(args.start_date) /\ ~AbsentBound(args.end_date)
\* end - start in whole calendar days
Days == args.end_date.day - args.start_date.day

Driver == args.op \in {"get_all", "iter_pages"}

\* what the caller of get was handed for the k-th answer of the transport
PageResult(k) == get_response(served[k], requests[k].page, get_per_page)

\* the raw response has one of the three supported shapes
SupportedShape(raw) ==
    \/ raw.kind = "array"
    \/ raw.kind = "object" /\ raw.data.kind = "list"
    \/ raw.kind = "object" /\ raw.data.kind = "dict" /\ raw.data.has_prices
\* its raw records
RawRecords(raw) == IF raw.kind = "array" THEN raw.items ELSE raw.data.items
\* a raw record with its timestamp and its price
WellFormed(item) ==
    item.kind = "dict" /\ item.created_at # Absent /\ item.price # Absent
AllWellFormed(raw) ==
    \A i \in 1..Len(RawRecords(raw)) : WellFormed(RawRecords(raw)[i])

(***************************************************************************)
(* C1: every request of a call goes to the path its date range picks:      *)
(* past_year when a bound is absent; otherwise past_day for days <= 1,     *)
(* past_week for 2..7, past_month for 8..30, past_year above 30.           *)
(***************************************************************************)
C1_Path ==
    IF ~BothBounds THEN "/v1/prices/past_year"
    ELSE IF Days <= 1 THEN "/v1/prices/past_day"
    ELSE IF 2 <= Days /\ Days <= 7 THEN "/v1/prices/past_week"
    ELSE IF 8 <= Days /\ Days <= 30 THEN "/v1/prices/past_month"
    ELSE "/v1/prices/past_year"

C1_EndpointByDateRange ==
    \A i \in 1..Len(requests) : requests[i].path = C1_Path

C1_Witness ==
    /\ Len(requests) = 1
    /\ BothBounds
    /\ Days = 8
    /\ requests[1].path = "/v1/prices/past_month"

(***************************************************************************)
(* C2: without a caller-supplied timeout the transport gets 120 s when a   *)
(* bound is absent, otherwise 30 s for days <= 7, 60 s for 8..30 and 120 s *)
(* above 30, and never any other value.                                    *)
(***************************************************************************)
C2_Timeout ==
    IF ~BothBounds THEN 120
    ELSE IF Days <= 7 THEN 30
    ELSE IF 8 <= Days /\ Days <= 30 THEN 60
    ELSE 120

C2_TimeoutByDateRange ==
    ~get_timeout.given =>
        \A i \in 1..Len(requests) :
            /\ requests[i].timeout = C2_Timeout
            /\ requests[i].timeout \in {30, 60, 120}

C2_Witness ==
    /\ ~get_timeout.given
    /\ Len(requests) = 1
    /\ BothBounds
    /\ Days = 30
    /\ requests[1].timeout = 60

(***************************************************************************)
(* C3: a timeout the caller passes to get reaches the transport unchanged, *)
(* whatever the date range.                                                *)
(***************************************************************************)
C3_OverrideWins ==
    get_timeout.given =>
        \A i \in 1..Len(requests) : requests[i].timeout = args.timeout.value

C3_Witness ==
    /\ args.timeout = Timeout(45)
    /\ BothBounds
    /\ Days > 30
    /\ Len(requests) = 1
    /\ requests[1].timeout = 45

(***************************************************************************)
(* Vocabulary of the pagination properties.                                *)
(***************************************************************************)
\* the raw page carries a meta block whose has_next is b
Reports(raw, b) ==
    /\ raw.kind = "object"
    /\ raw.meta.kind = "dict"
    /\ "has_next" \in raw.meta.keys
    /\ raw.meta.has_next = b
\* a page in a supported shape, all of its records well-formed
WellFormedPage(raw) == SupportedShape(raw) /\ AllWellFormed(raw)

\* the records of the first k served pages, in page order
RECURSIVE RecordsUpTo(_)
RecordsUpTo(k) ==
    IF k = 0 THEN <<>> ELSE RecordsUpTo(k - 1) \o PageResult(k).response.data

\* the batches of the non-empty pages among the first k served pages
RECURSIVE BatchesUpTo(_)
BatchesUpTo(k) ==
    IF k = 0 THEN <<>>
    ELSE IF PageResult(k).response.data = <<>> THEN BatchesUpTo(k - 1)
    ELSE Append(BatchesUpTo(k - 1), PageResult(k).response.data)

RECURSIVE SumRawRecords(_)
SumRawRecords(k) ==
    IF k = 0 THEN 0 ELSE SumRawRecords(k - 1) + Len(RawRecords(served[k]))

\* the k-th served page told the driver to stop: its metadata has has_next
\* false or missing
StopPage(k) == PageResult(k).exc = "none" /\ ~PageResult(k).response.meta.has_next

(***************************************************************************)
(* C4: when pages 1..N-1 report has_next = true and page N reports         *)
(* has_next = false, get_all makes exactly N fetches, for pages 1, 2, ..., *)
(* N in that order, and returns the records of pages 1..N concatenated in  *)
(* page order.                                                             *)
(***************************************************************************)
C4_ServesPages(n) ==
    /\ args.op = "get_all"
    /\ n \in 1..Len(served)
    /\ \A k \in 1..n : WellFormedPage(served[k])
    /\ \A k \in 1..(n - 1) : Reports(served[k], TRUE)
    /\ Reports(served[n], FALSE)

C4_GetAllConcatenates ==
    \A n \in 1..Len(served) :
        C4_ServesPages(n) =>
            /\ pc = "done"
            /\ Len(requests) = n
            /\ Len(served) = n
            /\ \A k \in 1..n : requests[k].page = k
            /\ all_prices = RecordsUpTo(n)
            /\ Len(all_prices) = SumRawRecords(n)

C4_Witness ==
    /\ C4_ServesPages(3)
    /\ pc = "done"
    /\ Len(requests) = 3
    /\ Len(all_prices) >= 3

(***************************************************************************)
(* C5: get_all and iter_pages stop at the first fetched page whose         *)
(* metadata has has_next false or missing: no request follows that page,   *)
(* get_all has then returned and iter_pages has nothing left but the batch *)
(* of that page; and once such a page was served the call ends.            *)
(***************************************************************************)
C5_NoFetchAfterStopPage ==
    Driver =>
        /\ \A k \in 1..(Len(served) - 1) : ~StopPage(k)
        /\ \A k \in 1..Len(served) :
              StopPage(k) =>
                  /\ Len(requests) = k
                  /\ args.op = "get_all" => pc = "done"
                  /\ args.op = "iter_pages" =>
                        \/ pc = "suspended" /\ yields(PageResult(k).response)
                        \/ pc \in {"done", "closed"}

C5_StopPageServed == Driver /\ \E k \in 1..Len(served) : StopPage(k)

C5_Ended == pc \in {"done", "closed"}

C5_StopsAtLastPage ==
    /\ []C5_NoFetchAfterStopPage
    /\ C5_StopPageServed ~> C5_Ended

C5_Witness ==
    /\ args.op = "iter_pages"
    /\ Len(served) = 2
    /\ StopPage(2)
    /\ Len(yielded) = 2
    /\ pc = "done"

(***************************************************************************)
(* C6: iter_pages is lazy and never prefetches.  No request is made before *)
(* the consumer first advances the iterator; a request is with the         *)
(* transport only while an advance of the consumer is waiting for its      *)
(* batch; while the consumer holds a batch, and after it has dropped the   *)
(* iterator, no request is made.  As claimed: a consumer that stops after  *)
(* the first yielded batch has caused exactly one fetch.                   *)
(***************************************************************************)
C6_NeverPrefetches ==
    args.op = "iter_pages" =>
        /\ advances = 0 => requests = <<>>
        /\ pc = "awaiting" => advances = Len(yielded) + 1
        /\ pc \in {"suspended", "closed"} =>
              /\ Len(requests) = Len(served)
              /\ advances = Len(yielded)
              /\ ~ENABLED SendRequest
        /\ pc = "closed" => ~ENABLED Next

C6_StoppedAfterFirstBatch ==
    args.op = "iter_pages" /\ pc = "closed" /\ Len(yielded) = 1

C8_ShapeInvariance ==
    (args.op = "get" /\ served # <<>> /\ WellFormedPage(served[1])) =>
        LET R == RawRecords(served[1])
        IN  /\ pc = "done"
            /\ Len(response.data) = Len(R)
            /\ \A i \in 1..Len(R) :
                  /\ response.data[i].date = R[i].created_at
                  /\ response.data[i].value = R[i].price
            /\ \A shape \in {Nested(R, NoMeta), Flat(R, NoMeta), Bare(R)} :
                  /\ get_response(shape, page, get_per_page).exc = "none"
                  /\ get_response(shape, page, get_per_page).response.data
                        = response.data

C8_Witness ==
    /\ args.op = "get"
    /\ pc = "done"
    /\ served = <<Flat(<<R1, R2>>, NoMeta)>>
    /\ Len(response.data) = 2

(***************************************************************************)
(* C9: for a response in none of the three supported shapes, get raises no *)
(* error and returns zero records with success = true.                     *)
(***************************************************************************)
C9_UnsupportedShapeIsEmpty ==
    (args.op = "get" /\ served # <<>> /\ ~SupportedShape(served[1])) =>
        /\ pc = "done"
        /\ error = "none"
        /\ response.success
        /\ response.data = <<>>

(***************************************************************************)
(* C10: when a page holds a record without created_at or without price,    *)
(* get raises no error, leaves that record out and returns the page's      *)
(* well-formed records in their original order.                            *)
(***************************************************************************)
C10_HasMalformedRecord(raw) ==
    /\ SupportedShape(raw)
    /\ \E i \in 1..Len(RawRecords(raw)) :
          RawRecords(raw)[i].kind = "dict" /\ ~WellFormed(RawRecords(raw)[i])

C10_MalformedRecordDropped ==
    (args.op = "get" /\ served # <<>> /\ C10_HasMalformedRecord(served[1])) =>
        /\ pc = "done"
        /\ error = "none"
        /\ response.data
              = build_prices(SelectSeq(RawRecords(served[1]), WellFormed)).prices

(***************************************************************************)
(* C11: a page answered without a meta block gets synthesized metadata:    *)
(* page is the requested page, has_prev is page > 1, and has_next is true  *)
(* exactly when the page holds as many records as the requested per_page.  *)
(***************************************************************************)
\* the raw response carries no meta block
NoMetaBlock(raw) ==
    \/ raw.kind = "array"
    \/ raw.kind = "object" /\ raw.meta.kind = "absent"

C11_InferredMeta ==
    \A k \in 1..Len(served) :
        NoMetaBlock(served[k]) /\ PageResult(k).exc = "none" =>
            LET r == PageResult(k).response
            IN  /\ r.meta.page = requests[k].page
                /\ r.meta.has_prev = (requests[k].page > 1)
                /\ r.meta.has_next = (Len(r.data) = get_per_page)
                /\ Len(r.data) < get_per_page => ~r.meta.has_next

\* the second page of an iteration, full and without a meta block
C11_Witness ==
    /\ Len(served) = 2
    /\ NoMetaBlock(served[2])
    /\ pc = "suspended"
    /\ response.meta.page = 2
    /\ response.meta.has_prev
    /\ response.meta.has_next
    /\ Len(response.data) = get_per_page

(***************************************************************************)
(* C12: a page answered with a meta block gets every key of the block      *)
(* copied unchanged; a missing page or per_page is the request's; a        *)
(* missing has_next is false however many records the page holds, and a    *)
(* driver requests no page after it.                                       *)
(***************************************************************************)
\* the raw response carries a meta block
HasMetaBlock(raw) == raw.kind = "object" /\ raw.meta.kind = "dict"

C12_CopiedMeta ==
    \A k \in 1..Len(served) :
        HasMetaBlock(served[k]) /\ PageResult(k).exc = "none" =>
            LET block == served[k].meta
                m == PageResult(k).response.meta
            IN  /\ \A key \in block.keys \cap MetaKeys : m[key] = block[key]
                /\ "page" \notin block.keys => m.page = requests[k].page
                /\ "per_page" \notin block.keys => m.per_page = get_per_page
                /\ "has_next" \notin block.keys => ~m.has_next
                /\ "has_next" \notin block.keys /\ Driver => Len(requests) = k

\* a full page whose meta block lacks has_next ended the iteration
C12_Witness ==
    /\ args.op = "iter_pages"
    /\ Len(served) = 1
    /\ served[1] = Nested(<<R1, R2>>, MetaSparse)
    /\ get_per_page = 2
    /\ Len(response.data) = get_per_page
    /\ response.meta.total_pages = 5
    /\ response.meta.page = 1
    /\ ~response.meta.has_next
    /\ pc = "done"

(***************************************************************************)
(* C13: a call with an unparseable start_date or end_date, one bound       *)
(* supplied or both, hands no request to the transport.                    *)
(***************************************************************************)
\* a supplied bound that is no date
Unparseable(d) == Truthy(d) /\ parse_date(d).exc # "none"

C13_InvalidDateNoRequest ==
    Unparseable(args.start_date) \/ Unparseable(args.end_date) =>
        requests = <<>>

(***************************************************************************)
(* C14: every start_date / end_date parameter handed to the transport is   *)
(* the ISO calendar date (YYYY-MM-DD, no time of day) of the bound the     *)
(* caller passed as a string, a date or a datetime; a bound that was not   *)
(* supplied is not sent.                                                   *)
(***************************************************************************)
\* the parameter a bound is to become
C14_DateParam(d) == IF AbsentBound(d) THEN NoDate ELSE IsoStr(parse_date(d).day)

C14_IsoDateParams ==
    ~Unparseable(args.start_date) /\ ~Unparseable(args.end_date) =>
        \A i \in 1..Len(requests) :
            /\ requests[i].start_date = C14_DateParam(args.start_date)
            /\ requests[i].end_date = C14_DateParam(args.end_date)

(***************************************************************************)
(* C15: when the fetch of page k of get_all / iter_pages fails, the call   *)
(* has ended with that error after exactly k fetches, pages 1..k each      *)
(* requested once; nothing is returned, yielded or requested afterwards.   *)
(***************************************************************************)
C15_TransportErrorEndsRetrieval ==
    Driver /\ error = "TransportError" =>
        LET k == Len(served) + 1
        IN  /\ pc = "raised"
            /\ Len(requests) = k
            /\ \A i \in 1..k : requests[i].page = i
            /\ Len(yielded) <= Len(served)
            /\ ~ENABLED Next

\* get_all failed on its second page, with records of the first in hand
C15_Witness ==
    /\ args.op = "get_all"
    /\ error = "TransportError"
    /\ pc = "raised"
    /\ Len(requests) = 2
    /\ Len(served) = 1
    /\ all_prices # <<>>

(***************************************************************************)
(* C16: under every interleaving of calls running on one resource, each    *)
(* call hands the transport the requests it makes when it runs alone       *)
(* (same pages, path, parameters, timeout) and ends with the result it     *)
(* has alone for the answers it got; a step of one call leaves the state   *)
(* of every other call as it was.                                          *)
(***************************************************************************)
\* alone, a call with arguments a asks for this page in its i-th request
SoloPage(a, i) == IF a.op = "get" THEN a.page ELSE i
SoloRequest(a, i) ==
    get_request(a, SoloPage(a, i), per_page_of(a), timeout_of(a)).request
\* alone, it makes this of the i-th answer of D
SoloResult(a, D, i) == get_response(D[i], SoloPage(a, i), per_page_of(a))

RECURSIVE SoloPrices(_, _, _)
\* alone, get_all has accumulated these records after n answers
SoloPrices(a, D, n) ==
    IF n = 0 THEN <<>>
    ELSE SoloPrices(a, D, n - 1) \o SoloResult(a, D, n).response.data

RECURSIVE SoloBatches(_, _, _)
\* alone, iter_pages has yielded these batches after n answers
SoloBatches(a, D, n) ==
    IF n = 0 THEN <<>>
    ELSE LET data == SoloResult(a, D, n).response.data
         IN  IF data = <<>> THEN SoloBatches(a, D, n - 1)
             ELSE Append(SoloBatches(a, D, n - 1), data)

C16_SameAsAlone ==
    \A c \in DOMAIN call_args :
        LET a == call_args[c]
            l == frames[c]
            D == delivered[c]
            n == Len(D)
            ok == \A i \in 1..n : SoloResult(a, D, i).exc = "none"
        IN  /\ l.args = a
            /\ Len(sent[c]) \in {n, n + 1}
            /\ \A i \in 1..Len(sent[c]) : sent[c][i] = SoloRequest(a, i)
            /\ ok /\ n >= 1 =>
                    /\ l.response = SoloResult(a, D, n).response
                    /\ l.error \in {"none", "TransportError"}
                    /\ l.page = SoloPage(a, Len(sent[c]))
                           \/ (l.pc = "ready" /\ l.page = n + 1)
            /\ ok /\ a.op = "get_all" =>
                    /\ l.all_prices = SoloPrices(a, D, n)
                    /\ l.pc = "done" =>
                           n >= 1 /\ last_page(SoloResult(a, D, n).response)
            /\ ok /\ a.op = "iter_pages" => l.yielded = SoloBatches(a, D, n)
            /\ ~ok => /\ l.pc = "raised"
                       /\ l.error = SoloResult(a, D, n).exc

C16_OneCallPerStep ==
    /\ call_args' = call_args
    /\ \E c \in DOMAIN call_args :
            \A d \in DOMAIN call_args \ {c} :
                /\ frames'[d] = frames[d]
                /\ sent'[d] = sent[d]
                /\ delivered'[d] = delivered[d]

C16_Independent == []C16_SameAsAlone /\ [][C16_OneCallPerStep]_vars

\* get_all and iter_pages both wait for their second page at once
C16_Witness ==
    /\ call_args # <<>>
    /\ call_args[1].op = "get_all"
    /\ call_args[2].op = "iter_pages"
    /\ frames[1].pc = "awaiting" /\ frames[1].page = 2
    /\ frames[2].pc = "awaiting" /\ frames[2].page = 2
    /\ frames[1].all_prices # <<>>
    /\ frames[2].yielded # <<>>
    /\ sent[1][2].by_code # sent[2][2].by_code

(***************************************************************************)
(* C17: a call whose start is later than its end raises no error for it:   *)
(* its request goes to past_day, with the 30 s timeout unless the caller   *)
(* gave one.                                                               *)
(***************************************************************************)
\* both bounds are dates and the end precedes the start
ReversedRange ==
    /\ BothBounds
    /\ ~Unparseable(args.start_date)
    /\ ~Unparseable(args.end_date)
    /\ Days < 0

C17_ReversedRangeAccepted ==
    ReversedRange =>
        /\ error # "ValueError"
        /\ pc \notin {"ready", "created"} =>
                /\ Len(requests) >= 1
                /\ requests[1].path = "/v1/prices/past_day"
                /\ ~get_timeout.given => requests[1].timeout = 30

C17_Witness ==
    /\ ReversedRange
    /\ Days = 0 - MaxBack
    /\ ~get_timeout.given
    /\ Len(requests) = 1
    /\ requests[1].path = "/v1/prices/past_day"
    /\ requests[1].timeout = 30
    /\ pc = "done"

(***************************************************************************)
(* C18: in every page get returns, a record made of a raw record without   *)
(* unit has unit "barrel", one made of a raw record without type has type  *)
(* "spot_price", and a supplied unit or type is kept.                      *)
(***************************************************************************)
\* the raw records of a response: its items that are dicts, in order
DictItems(raw) == SelectSeq(RawRecords(raw), LAMBDA item : item.kind = "dict")

C18_DefaultFilling ==
    \A k \in 1..Len(served) :
        SupportedShape(served[k]) /\ PageResult(k).exc = "none" =>
            LET raw == DictItems(served[k])
                data == PageResult(k).response.data
            IN  /\ Len(data) = Len(raw)
                /\ \A j \in 1..Len(raw) :
                        /\ data[j].unit = IF raw[j].unit = Absent THEN "barrel"
                                          ELSE raw[j].unit
                        /\ data[j].type_name =
                               IF raw[j].type = Absent THEN "spot_price"
                               ELSE raw[j].type

\* a page holding a record with its own unit and type and one with neither
C18_Witness ==
    /\ pc = "done"
    /\ Len(served) = 1
    /\ DictItems(served[1]) = <<R1, R2>>
    /\ R2.unit = Absent /\ R2.type = Absent
    /\ response.data[1].unit = "gallon"
    /\ response.data[1].type_name = "futures"
    /\ response.data[2].unit = "barrel"
    /\ response.data[2].type_name = "spot_price"

(***************************************************************************)
(* C19: every request of get, get_all and iter_pages carries per_page at   *)
(* most 1000, the requested per_page or 1000 if that is smaller, together  *)
(* with the commodity code, the interval, the page number and the price    *)
(* type of the call.                                                       *)
(***************************************************************************)
C19_CappedPerPage ==
    \A i \in 1..Len(requests) :
        /\ requests[i].per_page <= 1000
        /\ requests[i].per_page =
               IF get_per_page > 1000 THEN 1000 ELSE get_per_page
        /\ requests[i].by_code = args.commodity
        /\ requests[i].interval = args.interval
        /\ requests[i].by_type = args.type_name
        /\ requests[i].page = IF Driver THEN i ELSE args.page

\* the second page of an iteration asked for with 1001 records a page
C19_Witness ==
    /\ args.op = "iter_pages"
    /\ args.per_page = 1001
    /\ Len(requests) = 2
    /\ requests[2].per_page = 1000
    /\ requests[2].page = 2
    /\ requests[2].by_code = "WTI_USD"

(***************************************************************************)
(* C20: the request loop goes round again after its i-th HTTP call         *)
(* (attempt i - 1) exactly when the call failed with a status in retry_on, *)
(* or with an exception, and i - 1 < max_retries - 1.  So it makes at most *)
(* max_retries calls, never retries a status outside retry_on, and with    *)
(* max_retries = 3 two retryable failures and a success end in success     *)
(* after 3 calls.                                                          *)
(***************************************************************************)
\* the loop went round again after its i-th call
C20_Retried(i) == i < Len(outcomes) \/ (i = Len(outcomes) /\ result = "pending")

\* the i-th call ended in a failure the strategy retries on
C20_Retryable(i) ==
    \/ outcomes[i].kind = "exception"
    \/ outcomes[i].kind = "status" /\ outcomes[i].code # 200
            /\ outcomes[i].code \in strategy.retry_on

C20_RetriesBounded ==
    result # "idle" =>
        /\ \A i \in 1..Len(outcomes) :
                C20_Retried(i) <=>
                    C20_Retryable(i) /\ i - 1 < strategy.max_retries - 1
        /\ Len(outcomes) <= strategy.max_retries
        /\ \A i \in 1..Len(outcomes) :
                outcomes[i].kind = "status" /\ outcomes[i].code \notin strategy.retry_on
                    => ~C20_Retried(i)
        /\ (strategy.max_retries = 3 /\ Len(outcomes) >= 3
                /\ C20_Retryable(1) /\ C20_Retryable(2)
                /\ outcomes[3] = Status(200))
               => result = "success" /\ Len(outcomes) = 3

\* 500, 502, then 200 with max_retries = 3
C20_Witness ==
    /\ strategy = RetryStrategy(3, {})
    /\ outcomes = <<Status(500), Status(502), Status(200)>>
    /\ result = "success"

(***************************************************************************)
(* C21: without jitter the wait of attempt n is min(2^n, 60) seconds: 1,   *)
(* 2, 4, 8, 16, 32, then 60 from attempt 6 on, so a wait is never shorter  *)
(* than the one before it; with jitter it lies between that value and 1.3  *)
(* times that value.                                                       *)
(***************************************************************************)
\* min(2^n, 60), in seconds
C21_Base(n) == IF n < 6 THEN <<1, 2, 4, 8, 16, 32>>[n + 1] ELSE 60

C21_ExponentialBackoff ==
    /\ ~jitter => wait_time = 10 * C21_Base(wait_attempt)
    /\ ~jitter => prev_wait <= wait_time
    /\ jitter => /\ 10 * C21_Base(wait_attempt) <= wait_time
                 /\ wait_time <= 13 * C21_Base(wait_attempt)

\* the first capped wait, after 32 seconds
C21_Witness ==
    /\ ~jitter
    /\ wait_attempt = 6
    /\ prev_wait = 320
    /\ wait_time = 600

C23_Recorded ==
    {events[i] : i \in 1..Len(events)}
        \cup {threads[th].event : th \in {x \in DOMAIN threads : threads[x].pc = "append"}}
        \cup UNION {{threads[th].copy[i] : i \in 1..Len(threads[th].copy)} :
                       th \in DOMAIN threads}
        \cup BagToSet(payloads)

\* two metadata arguments with the same items under the allowed keys
C23_SameAllowed(m1, m2) ==
    {item \in m1.items : item[1] \in AllowedKeys}
        = {item \in m2.items : item[1] \in AllowedKeys}

C23_OnlyAllowedItems ==
    \A e \in C23_Recorded :
        \A item \in e.metadata :
            item[1] \in AllowedKeys /\ item \in tracked[e.timestamp].metadata.items

C23_NothingWhenDisabled ==
    ~enabled => C23_Recorded = {} /\ payloads = EmptyBag

C23_AllowListOnly ==
    /\ C23_OnlyAllowedItems
    /\ C23_NothingWhenDisabled
    /\ \A e \in C23_Recorded :
           \A m \in TelMetadatas :
               C23_SameAllowed(tracked[e.timestamp].metadata, m) =>
                   track_event([tracked[e.timestamp] EXCEPT !.metadata = m],
                               e.timestamp) = e

\* what does hold: the events agree in everything but the presence of the
\* metadata entry, which is there exactly when the caller's dict is not empty
C23_AllowListAndPresence ==
    /\ C23_OnlyAllowedItems
    /\ C23_NothingWhenDisabled
    /\ \A e \in C23_Recorded :
           /\ e.has_metadata = MetadataTruthy(tracked[e.timestamp].metadata)
           /\ \A m \in TelMetadatas :
                  C23_SameAllowed(tracked[e.timestamp].metadata, m) =>
                      [track_event([tracked[e.timestamp] EXCEPT !.metadata = m],
                                   e.timestamp)
                          EXCEPT !.has_metadata = e.has_metadata] = e

\* an event of a call whose metadata held a commodity code and an API key
\* was placed in a payload with an empty metadata entry
C23_Witness ==
    /\ enabled
    /\ \E e \in BagToSet(payloads) :
           /\ <<"api_key", "secret">> \in tracked[e.timestamp].metadata.items
           /\ e.has_metadata
           /\ e.metadata = {}

(***************************************************************************)
(* C30: with telemetry enabled, under every interleaving of concurrent     *)
(* track_request calls and the flush thread, each tracked event is in the  *)
(* payload of exactly the one flush that took it out of the buffer (never  *)
(* in two payloads, never taken without reaching a payload), and when no   *)
(* track_request call is in progress the buffer has fewer than 10 events.  *)
(***************************************************************************)
C30_Occurrences(s, e) == Cardinality({i \in 1..Len(s) : s[i] = e})

\* the copies taken out of the buffer by flushes that have not yet posted
C30_Taken(e) ==
    LET RECURSIVE Sum(_)
        Sum(S) == IF S = {} THEN 0
                  ELSE LET th == CHOOSE x \in S : TRUE
                       IN  C30_Occurrences(threads[th].copy, e) + Sum(S \ {th})
    IN  Sum(DOMAIN threads)

C30_InProgress == \E th \in Trackers : threads[th].pc # "idle"

C30_EachEventInOneFlush ==
    enabled =>
        /\ \A i \in 1..Len(tracked) :
               LET e == track_event(tracked[i], i)
               IN  /\ C30_Occurrences(events, e) + C30_Taken(e)
                          + CopiesIn(e, payloads) = 1
                   /\ CopiesIn(e, payloads) <= 1
        /\ \A th \in DOMAIN threads :
               threads[th].copy # <<>> => threads[th].pc = "post"
        /\ ~C30_InProgress => Len(events) < FlushThreshold

\* the buffer reached the threshold while one call was about to flush and
\* another had just appended
C30_Witness ==
    /\ enabled
    /\ Len(events) >= FlushThreshold
    /\ \E th \in Trackers : threads[th].pc = "flush"
    /\ \E th \in Trackers : threads[th].pc = "check"

(***************************************************************************)
(* C24: neither driver bounds the number of pages: while every page served *)
(* reports has_next = true, get_all and iter_pages do not return, the k-th *)
(* fetch asks for page k, the next fetch is always possible, and the only  *)
(* error that can end the run is the transport's.                          *)
(***************************************************************************)
\* every page served so far was parsed and reports a following page
C24_AlwaysHasNext ==
    \A k \in 1..Len(served) :
        /\ PageResult(k).exc = "none"
        /\ PageResult(k).response.meta.has_next

C24_NoPageBound ==
    Driver /\ C24_AlwaysHasNext /\ served # <<>> =>
        /\ pc # "done"
        /\ pc = "raised" => error = "TransportError"
        /\ pc # "raised" => error = "none"
        /\ \A i \in 1..Len(requests) : requests[i].page = i
        /\ pc = "ready" => page = Len(served) + 1
        /\ pc = "ready" /\ page <= MaxPages => ENABLED SendRequest

\* get_all has fetched three pages, the last of them empty, and is about
\* to ask for the fourth
C24_Witness ==
    /\ args.op = "get_all"
    /\ C24_AlwaysHasNext
    /\ Len(served) >= 3
    /\ served[Len(served)] = Nested(<<>>, MetaNext)
    /\ pc = "ready"
    /\ page = Len(served) + 1

(***************************************************************************)
(* C25: against a backend that sends no meta block, a driver goes on only  *)
(* after full pages; when the last non-empty page is full it makes exactly *)
(* one more fetch, which is empty, and then ends, having delivered the     *)
(* records of the non-empty pages: k + 1 fetches and k * per_page records. *)
(***************************************************************************)
\* every page served so far came without a meta block and was parsed
C25_NoMetaBackend ==
    \A k \in 1..Len(served) :
        NoMetaBlock(served[k]) /\ PageResult(k).exc = "none"

C25_Records(k) == PageResult(k).response.data
C25_Full(k) == Len(C25_Records(k)) = get_per_page

\* the records of the first n pages, in order
RECURSIVE C25_Concat(_)
C25_Concat(n) == IF n = 0 THEN <<>> ELSE C25_Concat(n - 1) \o C25_Records(n)

C26_SentPageSizeInferred ==
    args.op = "iter_pages" =>
        \A k \in 1..Len(served) :
            NoMetaBlock(served[k]) /\ PageResult(k).exc = "none" =>
                LET r == PageResult(k).response
                IN  /\ r.meta.per_page = requests[k].per_page
                    /\ r.meta.has_next = (Len(r.data) = requests[k].per_page)

(***************************************************************************)
(* C27: within one get_all or iter_pages run the pages requested are       *)
(* 1, 2, 3, ... by the driver's own counter, whatever page the meta block  *)
(* reports, and every fetch has the same endpoint, timeout, commodity,     *)
(* interval, price type, date bounds and page size: 1000 for get_all, the  *)
(* timeout that of the date-range policy.                                  *)
(***************************************************************************)
C27_SteadyFetches ==
    Driver =>
        /\ \A i \in 1..Len(requests) :
               /\ requests[i].page = i
               /\ requests[i] = [requests[1] EXCEPT !.page = i]
               /\ requests[i].timeout = C2_Timeout
               /\ requests[i].by_code = args.commodity
               /\ requests[i].interval = args.interval
               /\ requests[i].by_type = args.type_name
               /\ requests[i].per_page = Min(args.per_page, 1000)
               /\ args.op = "get_all" => requests[i].per_page = 1000
        /\ pc \in {"ready", "awaiting"} => page = Len(served) + 1

\* three fetches of a run over a dated range whose first two pages carried a
\* meta block reporting page 7
C27_Witness ==
    /\ Driver
    /\ BothBounds
    /\ Len(requests) = 3
    /\ served[1] = Nested(<<R1>>, MetaNext)
    /\ served[1].meta.page = 7
    /\ Len(served) >= 2 /\ served[2].meta.kind = "dict"
    /\ requests[3].page = 3
    /\ requests[3].timeout = 60

(***************************************************************************)
(* C29: with no caller-supplied timeout, whatever the date range (bounds   *)
(* absent or reversed included), a request has timeout 120 exactly when    *)
(* its path is past_year, 60 exactly when it is past_month and 30 exactly  *)
(* when it is past_day or past_week; the timeout does not decrease as the  *)
(* day count grows.                                                        *)
(***************************************************************************)
\* the timeout of the policy for a range of d days
C29_TimeoutOfDays(d) ==
    calculate_timeout(Date(MaxBack), Date(MaxBack + d), NoTimeout).timeout

C29_CoherentTimeout ==
    ~get_timeout.given =>
        \A i \in 1..Len(requests) :
            /\ requests[i].timeout = 120 <=> requests[i].path = "/v1/prices/past_year"
            /\ requests[i].timeout = 60 <=> requests[i].path = "/v1/prices/past_month"
            /\ requests[i].timeout = 30 <=>
                   requests[i].path \in {"/v1/prices/past_day", "/v1/prices/past_week"}
            /\ BothBounds =>
                   /\ requests[i].timeout = C29_TimeoutOfDays(Days)
                   /\ \A d \in (0 - MaxBack)..MaxDays :
                          /\ d <= Days => C29_TimeoutOfDays(d) <= requests[i].timeout
                          /\ d >= Days => C29_TimeoutOfDays(d) >= requests[i].timeout

\* a request for a range of more than thirty days
C29_Witness ==
    /\ ~get_timeout.given
    /\ BothBounds
    /\ Days > 30
    /\ Len(requests) = 1
    /\ requests[1].timeout = 120
    /\ requests[1].path = "/v1/prices/past_year"

(***************************************************************************)
(* C28: eager and lazy retrieval agree: for the same backend and the same  *)
(* arguments with per_page = 1000, iter_pages consumed to exhaustion and   *)
(* get_all make the same fetches in the same order, end the same way, and  *)
(* the batches yielded, concatenated in order, are the list get_all        *)
(* returns, empty pages included.                                          *)
(***************************************************************************)
RECURSIVE C28_Flatten(_)
C28_Flatten(batches) ==
    IF batches = <<>> THEN <<>>
    ELSE batches[1] \o C28_Flatten(Tail(batches))

C28_Ended(l) == l.pc \in {"done", "raised"}

C28_EagerLazyAgree ==
    \A c \in CallIds \ {1} :
        LET eager == frames[frame_of(1)]
            lazy == frames[frame_of(c)]
            n == Min(Len(sent[1]), Len(sent[c]))
        IN  /\ SubSeq(sent[1], 1, n) = SubSeq(sent[c], 1, n)
            /\ C28_Ended(eager) /\ C28_Ended(lazy) =>
                   /\ sent[1] = sent[c]
                   /\ delivered[1] = delivered[c]
                   /\ eager.pc = lazy.pc
                   /\ eager.error = lazy.error
                   /\ eager.pc = "done" =>
                          C28_Flatten(lazy.yielded) = eager.all_prices

\* both have ended after an empty first page and a second page of two
\* records
C28_Witness ==
    /\ call_args[1].op = "get_all"
    /\ call_args[2].op = "iter_pages"
    /\ call_args[2].per_page = 1000
    /\ frames[frame_of(1)].pc = "done"
    /\ frames[frame_of(2)].pc = "done"
    /\ delivered[2] = <<Nested(<<>>, MetaNext), Nested(<<R1, R2>>, NoMeta)>>
    /\ Len(sent[1]) = 2
    /\ Len(frames[frame_of(2)].yielded) = 1
    /\ Len(frames[frame_of(1)].all_prices) = 2

====
